---- MODULE Spec2Model ----
(***************************************************************************)
(* Gaze recorder: the GazeRecorder component (src/src/GazeRecorder.jsx)    *)
(* and the useAudioRecorder hook (src/unnamed/part_004) as one state       *)
(* machine.  React state is committed by the handler that sets it; the     *)
(* passive effects (useEffect bodies) of a commit run in a later step,     *)
(* FlushEffects, and always before the next commit.  Timers, the gaze      *)
(* engine, getUserMedia and the MediaRecorder events are steps of the      *)
(* environment that interleave with the handlers.  The CSV exporters and   *)
(* the psychometric test of the App (src/unnamed/part_000) are part of it. *)
(*                                                                         *)
(* Time is counted in half milliseconds and gaze coordinates in half       *)
(* pixels, so that Math.round is a real rounding.  Ids made by             *)
(* crypto.randomUUID() are fresh positive integers; 0 stands for the       *)
(* falsy values null and "" of an id; -1 stands for a null timestamp.      *)
(* The DOM lookups of a row (content context, question id) are read-only   *)
(* queries of the page and are left out of the rows.                       *)
(***************************************************************************)
EXTENDS Integers, Sequences, FiniteSets, TLC

\* ---- bounds of the model
MaxTime == 3
MaxSamples == 2
MaxSessions == 2
MaxSegments == 2
MaxRows == 2

\* ---- program constants
ClicksPerCalibrationPoint == 6

NoId == 0
NullTs == -1
None == <<>>
Some(v) == <<v>>

VARIABLES
  \* GazeRecorder: React state
  ready, recording, calibrating, status, calibIdx, calibClicks,
  \* GazeRecorder: refs and memo
  samples, lastGaze, sessionId, recordingStartTs, audioSegmentIdRef, calibPts,
  \* GazeRecorder: refs owned by the two effects, and the dependency value
  \* each effect last ran with
  intervalRef, audioRecordingRef, lastAudioTs, audioTickRef, samplerDep, audioDep,
  \* useAudioRecorder: React state and refs
  isRecording, recordings, error, mediaRecorderRef, streamRef, chunks,
  pendingMeta, pendingId, startTsRef,
  \* environment: clock, viewport, gaze engine, audio device (recorders,
  \* streams handed out and those whose tracks are live), object URLs
  now, viewport, wgPhase, isSupported, recorders, pendingStarts, nextStream, liveTracks,
  liveUrls, nextSegment,
  \* history: last step taken, rows-with-gaze ticks of this recording, what
  \* the recorder held at each appended row, clicks of this calibration
  \* run and the last point handed to the gaze engine, ids returned by the
  \* audio starts since the last audio stop, whether an audio error was seen
  lastOp, ticksWithGaze, sampleCtx, calibTotalClicks, doneSignals, calibrationDone, lastCalibPoint,
  startedIds, hadError,
  \* doneSignals: "calibration complete" signals of this calibration run;
  \* calibrationDone: the application's flag set by the signal
  \* history: what the last startRecording, startCalibration or session
  \* reset found (rows, segments, calibration progress), <<>> before any
  lastCleared,
  \* export: the rows handed to an exporter and the file it produced
  csvRows, csvOut,
  \* App: the psychometric test (React state and the ref of its start time)
  psychometricActive, psychometricResponses, psychometricStartTsRef,
  \* GazeRecorder: the sampleHz prop, as <<numerator, denominator>> in Hz, and
  \* the delay (ms) the sampler's interval was armed with, 0 when none
  sampleHz, intervalPeriod

compVars == <<ready, recording, calibrating, status, calibIdx, calibClicks>>
refVars == <<samples, lastGaze, sessionId, recordingStartTs, audioSegmentIdRef, calibPts>>
effVars == <<intervalRef, intervalPeriod, audioRecordingRef, lastAudioTs, audioTickRef,
             samplerDep, audioDep>>
hookVars == <<isRecording, recordings, error, mediaRecorderRef, streamRef, chunks,
              pendingMeta, pendingId, startTsRef>>
envVars == <<now, viewport, wgPhase, isSupported, recorders, pendingStarts, nextStream, liveTracks,
             liveUrls, nextSegment>>
histVars == <<lastOp, ticksWithGaze, sampleCtx, calibTotalClicks, doneSignals, calibrationDone, lastCalibPoint,
              startedIds, hadError, lastCleared>>
csvVars == <<csvRows, csvOut>>
appVars == <<psychometricActive, psychometricResponses, psychometricStartTsRef>>
propVars == <<sampleHz>>
vars == <<compVars, refVars, effVars, hookVars, envVars, histVars, csvVars, appVars, propVars>>

\* ---- pure helpers

\* Math.round of a value given in halves: floor(h/2 + 1/2)
Round(h) == (h + 1) \div 2

\* Math.round(p * w) for p given in tenths
RoundTenths(p10, w) == (2 * p10 * w + 10) \div 20

Max(a, b) == IF a >= b THEN a ELSE b
Min(a, b) == IF a <= b THEN a ELSE b

clamp(n, lo, hi) == Max(lo, Min(hi, n))

\* a ?? b for timestamps
OrElse(a, b) == IF a = NullTs THEN b ELSE a

Fractions == <<1, 5, 9>>
GridSize == Len(Fractions) * Len(Fractions)

\* for (const y of ys) for (const x of xs) pts.push([x, y])
make9PointGrid(w, h) ==
  LET xs == [i \in 1..3 |-> RoundTenths(Fractions[i], w)]
      ys == [i \in 1..3 |-> RoundTenths(Fractions[i], h)]
  IN [k \in 1..GridSize |-> <<xs[((k - 1) % 3) + 1], ys[((k - 1) \div 3) + 1]>>]

\* viewports (innerWidth, innerHeight) in pixels the window can take
Viewports == {<<15, 20>>, <<30, 10>>}

\* a value the gaze engine reports: a number (in half pixels) or NaN
Num(n) == <<"num", n>>
NaN == <<"nan", 0>>
isFinite(v) == v[1] = "num"

\* what the gaze engine hands to the listener: null (<<>>) or <<x, y>>
GazeData == {<<>>, <<NaN, Num(3)>>, <<Num(7), Num(4)>>, <<Num(-2), Num(99)>>}

\* faulty variant: no fallback text
OnErrorMessage_noFallback(m) == m

\* evt.error.message || "Audio recorder error."
OnErrorMessage(m) == IF m # "" THEN m ELSE "Audio recorder error."
ErrorEvents == {"", "device lost"}

\* String(e?.message || e)
CatchMessage(e) == IF e.message # "" THEN e.message ELSE e.str
Rejections == {[message |-> "Permission denied", str |-> "NotAllowedError: Permission denied"],
               [message |-> "", str |-> "NotFoundError"]}

RecorderIds == 1..MaxSegments
\* data: 1 once the recorder has delivered a non-empty blob
NoRecorder == [state |-> "none", startTs |-> NullTs, stream |-> 0, data |-> 0]

\* ---- CSV export.  A string is a sequence of one-character strings; a
\* value is null, undefined, a string or a number; a row is an object, the
\* sequence of its <<key, value>> pairs in insertion order.

NullV == [kind |-> "null", s |-> <<>>, n |-> 0]
UndefinedV == [kind |-> "undefined", s |-> <<>>, n |-> 0]
StrV(s) == [kind |-> "str", s |-> s, n |-> 0]
NumV(n) == [kind |-> "num", s |-> <<>>, n |-> n]

Digit(d) == <<"0", "1", "2", "3", "4", "5", "6", "7", "8", "9">>[d + 1]

\* String(v) of a string or of an integer
String(v) ==
  IF v.kind = "str" THEN v.s
  ELSE IF v.n < 0 THEN <<"-">> \o (IF -v.n >= 10 THEN <<Digit((-v.n) \div 10)>> ELSE <<>>)
                                 \o <<Digit((-v.n) % 10)>>
  ELSE (IF v.n >= 10 THEN <<Digit(v.n \div 10)>> ELSE <<>>) \o <<Digit(v.n % 10)>>

\* /[,"\n]/.test(s)
NeedsQuotes(s) == \E i \in 1..Len(s) : s[i] \in {",", "\"", "\n"}

\* s.replace(/"/g, '""')
RECURSIVE ReplaceQuotes(_)
ReplaceQuotes(s) ==
  IF s = <<>> THEN <<>>
  ELSE (IF Head(s) = "\"" THEN <<"\"", "\"">> ELSE <<Head(s)>>) \o ReplaceQuotes(Tail(s))

\* faulty variant: the value is wrapped and its quotes are left single
csvEscape_noDoubling(v) ==
  IF v.kind \in {"null", "undefined"} THEN <<>>
  ELSE LET s == String(v) IN
       IF NeedsQuotes(s) THEN <<"\"">> \o s \o <<"\"">> ELSE s

\* GazeRecorder.jsx csvEscape
csvEscape(v) ==
  IF v.kind \in {"null", "undefined"} THEN <<>>
  ELSE LET s == String(v) IN
       IF NeedsQuotes(s) THEN <<"\"">> \o ReplaceQuotes(s) \o <<"\"">> ELSE s

\* App.jsx csvEscape
App_csvEscape(v) ==
  IF v.kind \in {"null", "undefined"} THEN <<>>
  ELSE LET s == String(v) IN
       IF NeedsQuotes(s) THEN <<"\"">> \o ReplaceQuotes(s) \o <<"\"">> ELSE s

\* Object.keys(r)
Keys(r) == [i \in 1..Len(r) |-> r[i][1]]

\* r[k]: the value of the key, undefined when the object lacks it
Get(r, k) ==
  IF \E i \in 1..Len(r) : r[i][1] = k
  THEN r[CHOOSE i \in 1..Len(r) : r[i][1] = k][2]
  ELSE UndefinedV

\* parts.join(sep)
RECURSIVE Join(_, _)
Join(parts, sep) ==
  IF parts = <<>> THEN <<>>
  ELSE IF Len(parts) = 1 THEN parts[1]
  ELSE parts[1] \o sep \o Join(Tail(parts), sep)

\* keys added to a Set in the order met, Array.from(set)
RECURSIVE AddKeys(_, _)
AddKeys(header, keys) ==
  IF keys = <<>> THEN header
  ELSE AddKeys(IF \E i \in 1..Len(header) : header[i] = Head(keys)
               THEN header ELSE Append(header, Head(keys)),
               Tail(keys))

RECURSIVE HeaderSet(_, _)
HeaderSet(header, rows) ==
  IF rows = <<>> THEN header
  ELSE HeaderSet(AddKeys(header, Keys(Head(rows))), Tail(rows))

NoCsv == [by |-> "none", header |-> <<>>, fields |-> <<>>, text |-> <<>>]

\* the file an exporter writes: the header keys, the fields of each row,
\* and the text of the blob (lines.join("\n"))
CsvFile(by, header, fields) ==
  [by |-> by, header |-> header, fields |-> fields,
   text |-> Join(<<Join([i \in 1..Len(header) |-> <<header[i]>>], <<",">>)>>
                 \o [i \in 1..Len(fields) |-> Join(fields[i], <<",">>)], <<"\n">>)]

\* GazeRecorder.jsx downloadCsv: the header is Object.keys(rows[0])
downloadCsv(rows) ==
  IF Len(rows) = 0 THEN NoCsv
  ELSE LET header == Keys(rows[1]) IN
       CsvFile("GazeRecorder", header,
               [i \in 1..Len(rows) |->
                  [j \in 1..Len(header) |-> csvEscape(Get(rows[i], header[j]))]])

\* faulty variant: zero rows give a file of the (empty) header line
App_downloadCsv_headerOnly(rows) ==
  LET header == HeaderSet(<<>>, rows) IN
  CsvFile("App", header,
          [i \in 1..Len(rows) |->
             [j \in 1..Len(header) |-> App_csvEscape(Get(rows[i], header[j]))]])

\* App.jsx downloadCsv: the header is the keys of all rows, first seen first
App_downloadCsv(rows) ==
  IF Len(rows) = 0 THEN NoCsv
  ELSE LET header == HeaderSet(<<>>, rows) IN
       CsvFile("App", header,
               [i \in 1..Len(rows) |->
                  [j \in 1..Len(header) |-> App_csvEscape(Get(rows[i], header[j]))]])

\* values, objects and row sequences handed to the exporters
CsvValues == {NullV, StrV(<<"x">>), StrV(<<"a", ",", "b", "\"", "c">>),
              StrV(<<"l", "\n", "m">>), NumV(12)}
CsvKeys == {"k1", "k2"}
CsvObjects ==
  {<<>>} \cup {<<(<<k, v>>)>> : k \in CsvKeys, v \in CsvValues}
         \cup UNION {{<<(<<k1, v1>>), (<<k2, v2>>)>> :
                        k2 \in CsvKeys \ {k1}, v1 \in CsvValues, v2 \in CsvValues} :
                      k1 \in CsvKeys}
CsvInputs == UNION {[1..n -> CsvObjects] : n \in 0..MaxRows}

\* The component is mounted; a state setter called after the unmount does
\* nothing.
Mounted == wgPhase # "unmounted"

\* ---- initial state: the component as mounted, before its first effect

InitComponent ==
  /\ ready = FALSE /\ recording = FALSE /\ calibrating = FALSE
  /\ status = "init" /\ calibIdx = 0 /\ calibClicks = 0
  /\ samples = <<>> /\ lastGaze = <<>>
  /\ sessionId = 1
  /\ recordingStartTs = NullTs /\ audioSegmentIdRef = NoId
  /\ viewport \in Viewports
  /\ calibPts = make9PointGrid(viewport[1], viewport[2])
  /\ intervalRef = FALSE /\ audioRecordingRef = FALSE /\ lastAudioTs = NullTs
  /\ audioTickRef = FALSE /\ samplerDep = FALSE /\ audioDep = FALSE
  /\ isRecording = FALSE /\ recordings = <<>> /\ error = ""
  /\ mediaRecorderRef = 0 /\ streamRef = 0 /\ chunks = <<>>
  /\ pendingMeta = None /\ pendingId = NoId /\ startTsRef = NullTs
  /\ now = 0 /\ wgPhase = "mount" /\ isSupported = TRUE
  /\ recorders = [r \in RecorderIds |-> NoRecorder]
  /\ pendingStarts = {} /\ nextStream = 1 /\ liveTracks = {}
  /\ liveUrls = {} /\ nextSegment = 1
  /\ lastOp = "init" /\ ticksWithGaze = 0 /\ sampleCtx = <<>>
  /\ calibTotalClicks = 0 /\ lastCalibPoint = <<>>
  /\ doneSignals = 0 /\ calibrationDone = FALSE
  /\ startedIds = {} /\ hadError = FALSE /\ lastCleared = <<>>
  /\ psychometricActive = FALSE /\ psychometricResponses = <<>>
  /\ psychometricStartTsRef = NullTs
  /\ intervalPeriod = 0

\* App: <GazeRecorder sampleHz={5} ... />
AppSampleHz == <<5, 1>>

Init == InitComponent /\ csvRows = <<>> /\ csvOut = NoCsv /\ sampleHz = AppSampleHz

\* ---- passive effects

\* The sampler effect (deps [recording, sampleHz]): its cleanup clears the
\* interval; its body arms a new one when recording, else leaves none.
SamplerEffectInterval(rec) == rec

\* Math.round(n / d) of positive integers: floor(n/d + 1/2)
RoundDiv(n, d) == (2 * n + d) \div (2 * d)

\* faulty variant: the 10 ms floor is left out
periodMs_noFloor(hz) == RoundDiv(1000 * hz[2], hz[1])

\* const periodMs = Math.max(10, Math.round(1000 / sampleHz))
periodMs(hz) == Max(10, RoundDiv(1000 * hz[2], hz[1]))

EffectsPending == samplerDep # recording \/ audioDep # isRecording

\* The values the effect-owned refs take once the pending effects have run.
\* The audio effect (deps [audioRecording]) mirrors the hook's isRecording
\* into audioRecordingRef, stamps lastAudioTsRef and arms the 50 ms tick, or
\* clears all three.
Flushed ==
  /\ intervalRef' = IF samplerDep # recording THEN SamplerEffectInterval(recording)
                    ELSE intervalRef
  /\ intervalPeriod' = IF samplerDep # recording
                       THEN (IF recording THEN periodMs(sampleHz) ELSE 0)
                       ELSE intervalPeriod
  /\ samplerDep' = recording
  /\ audioRecordingRef' = IF audioDep # isRecording THEN isRecording ELSE audioRecordingRef
  /\ audioTickRef' = IF audioDep # isRecording THEN isRecording ELSE audioTickRef
  /\ lastAudioTs' = IF audioDep # isRecording
                    THEN (IF isRecording THEN now ELSE NullTs)
                    ELSE lastAudioTs
  /\ audioDep' = isRecording

\* React runs the passive effects of a commit some time after it.
FlushEffects ==
  /\ EffectsPending
  /\ Flushed
  /\ lastOp' = "FlushEffects"
  /\ UNCHANGED <<appVars, propVars>>
  /\ UNCHANGED <<lastCleared, csvRows, csvOut>>
  /\ UNCHANGED <<compVars, refVars, hookVars, envVars>>
  /\ UNCHANGED <<ticksWithGaze, sampleCtx, calibTotalClicks, doneSignals, calibrationDone, lastCalibPoint, startedIds, hadError>>

\* ---- gaze engine

\* The mount effect: window.webgazer missing, or begin() issued.
MountWebGazer ==
  /\ wgPhase = "mount"
  /\ \E present \in BOOLEAN :
       IF present
       THEN wgPhase' = "starting" /\ status' = "starting webgazer..."
       ELSE wgPhase' = "missing" /\ status' = "WebGazer script not found (check index.html)"
  /\ Flushed
  /\ lastOp' = "MountWebGazer"
  /\ UNCHANGED <<appVars, propVars>>
  /\ UNCHANGED <<lastCleared, csvRows, csvOut>>
  /\ UNCHANGED <<ready, recording, calibrating, calibIdx, calibClicks>>
  /\ UNCHANGED <<refVars, hookVars>>
  /\ UNCHANGED <<now, viewport, isSupported, recorders, pendingStarts, nextStream, liveTracks,
                 liveUrls, nextSegment>>
  /\ UNCHANGED <<ticksWithGaze, sampleCtx, calibTotalClicks, doneSignals, calibrationDone, lastCalibPoint, startedIds, hadError>>

\* await wg...begin() settles: the listener is registered and ready is set,
\* or the failure is put in the status.
WebGazerBegin ==
  /\ wgPhase = "starting"
  /\ \E ok \in BOOLEAN :
       IF ok
       THEN wgPhase' = "listening" /\ ready' = TRUE /\ status' = "ready"
       ELSE wgPhase' = "failed" /\ ready' = ready /\ status' = "failed to start: no camera"
  /\ Flushed
  /\ lastOp' = "WebGazerBegin"
  /\ UNCHANGED <<appVars, propVars>>
  /\ UNCHANGED <<lastCleared, csvRows, csvOut>>
  /\ UNCHANGED <<recording, calibrating, calibIdx, calibClicks>>
  /\ UNCHANGED <<refVars, hookVars>>
  /\ UNCHANGED <<now, viewport, isSupported, recorders, pendingStarts, nextStream, liveTracks,
                 liveUrls, nextSegment>>
  /\ UNCHANGED <<ticksWithGaze, sampleCtx, calibTotalClicks, doneSignals, calibrationDone, lastCalibPoint, startedIds, hadError>>

\* faulty variant: the listener stores whatever point it is handed
GazeSlot_unchecked(slot, data) ==
  IF data = <<>> THEN slot ELSE <<data[1][2], data[2][2]>>

\* The slot after the listener has seen data: a null or non-finite push
\* leaves it, any other push replaces it.  The ts field of the stored point
\* is read nowhere in the program and is not kept.
GazeSlot(slot, data) ==
  IF data = <<>> THEN slot
  ELSE IF ~isFinite(data[1]) \/ ~isFinite(data[2]) THEN slot
  ELSE <<data[1][2], data[2][2]>>

\* the flag the mount effect's cleanup sets
stopped == ~Mounted

\* The engine calls the listener once begin() has succeeded.  After the
\* unmount a call can still arrive (one in flight when wg.end() ran, or the
\* listener registered by a begin() that settled late), unless the engine
\* was missing, never asked or failed to start.
ListenerCalled ==
  \/ wgPhase = "listening"
  \/ /\ ~Mounted
     /\ status \notin {"init", "WebGazer script not found (check index.html)",
                       "failed to start: no camera"}

GazePush(data) ==
  /\ ListenerCalled
  /\ lastGaze' = IF stopped THEN lastGaze ELSE GazeSlot(lastGaze, data)
  /\ lastOp' = "GazeListener"
  /\ UNCHANGED <<appVars, propVars>>
  /\ UNCHANGED <<lastCleared, csvRows, csvOut>>
  /\ UNCHANGED <<compVars, effVars, hookVars, envVars>>
  /\ UNCHANGED <<samples, sessionId, recordingStartTs, audioSegmentIdRef, calibPts>>
  /\ UNCHANGED <<ticksWithGaze, sampleCtx, calibTotalClicks, doneSignals, calibrationDone, lastCalibPoint, startedIds, hadError>>

GazeListener == \E data \in GazeData : GazePush(data)

\* ---- calibration

\* faulty variant: the point index survives a restart of the calibration
StartedCalibration_keepIndex == [calibrating |-> TRUE, calibIdx |-> calibIdx, calibClicks |-> 0]

\* setCalibrating(true); setCalibIdx(0); setCalibClicks(0)
StartedCalibration == [calibrating |-> TRUE, calibIdx |-> 0, calibClicks |-> 0]

\* Calibrate button: disabled={!ready || recording}
startCalibration ==
  /\ ready /\ ~recording
  /\ calibrating' = StartedCalibration.calibrating
  /\ calibIdx' = StartedCalibration.calibIdx
  /\ calibClicks' = StartedCalibration.calibClicks
  /\ status' = "calibrating"
  /\ Flushed
  /\ lastOp' = "startCalibration"
  /\ UNCHANGED <<appVars, propVars>>
  /\ lastCleared' = <<Len(samples) > 0, Len(recordings) > 0, calibIdx > 0 \/ calibClicks > 0>>
  /\ UNCHANGED <<csvRows, csvOut>>
  /\ calibTotalClicks' = 0 /\ lastCalibPoint' = <<>>
  /\ doneSignals' = 0 /\ UNCHANGED calibrationDone
  /\ UNCHANGED <<ready, recording>>
  /\ UNCHANGED <<refVars, hookVars, envVars>>
  /\ UNCHANGED <<ticksWithGaze, sampleCtx, startedIds, hadError>>

\* faulty variant: the run ends one point early
CalibAfterClick_early(idx, clicks, n, st) ==
  LET nextClicks == clicks + 1 IN
  IF nextClicks >= ClicksPerCalibrationPoint
  THEN LET nextIdx == idx + 1 IN
       IF nextIdx >= n - 1
       THEN [idx |-> nextIdx, clicks |-> 0, calibrating |-> FALSE, status |-> "calibration done"]
       ELSE [idx |-> nextIdx, clicks |-> 0, calibrating |-> TRUE, status |-> st]
  ELSE [idx |-> idx, clicks |-> nextClicks, calibrating |-> TRUE, status |-> st]

\* faulty variant: the point advances one click late (> for >=)
CalibAfterClick_late(idx, clicks, n, st) ==
  LET nextClicks == clicks + 1 IN
  IF nextClicks > ClicksPerCalibrationPoint
  THEN LET nextIdx == idx + 1 IN
       IF nextIdx >= n
       THEN [idx |-> nextIdx, clicks |-> 0, calibrating |-> FALSE, status |-> "calibration done"]
       ELSE [idx |-> nextIdx, clicks |-> 0, calibrating |-> TRUE, status |-> st]
  ELSE [idx |-> idx, clicks |-> nextClicks, calibrating |-> TRUE, status |-> st]

\* (calibIdx, calibClicks, calibrating, status) after one click on the dot
CalibAfterClick(idx, clicks, n, st) ==
  LET nextClicks == clicks + 1 IN
  IF nextClicks >= ClicksPerCalibrationPoint
  THEN LET nextIdx == idx + 1 IN
       IF nextIdx >= n
       THEN [idx |-> nextIdx, clicks |-> 0, calibrating |-> FALSE, status |-> "calibration done"]
       ELSE [idx |-> nextIdx, clicks |-> 0, calibrating |-> TRUE, status |-> st]
  ELSE [idx |-> idx, clicks |-> nextClicks, calibrating |-> TRUE, status |-> st]

\* Whether the click that leads to `a` emits the "calibration complete"
\* signal.  The recorder at hand does not take the onCalibrationDone prop
\* the application passes; this is the emission the specification
\* describes: on the transition to Done.
EmitsCalibrationDone(a) == ~a.calibrating

\* App: onCalibrationDone={() => setCalibrationDone(true)}
onCalibrationDone == calibrationDone' = TRUE

\* The dot is rendered while calibrating && calibIdx < calibPts.length, at
\* calibPts[calibIdx]; its click hands that point to the gaze engine.
onCalibDotClick ==
  /\ calibrating /\ calibIdx < Len(calibPts)
  /\ LET a == CalibAfterClick(calibIdx, calibClicks, Len(calibPts), status) IN
       /\ calibIdx' = a.idx
       /\ calibClicks' = a.clicks
       /\ calibrating' = a.calibrating
       /\ status' = a.status
       /\ IF EmitsCalibrationDone(a)
          THEN doneSignals' = doneSignals + 1 /\ onCalibrationDone
          ELSE UNCHANGED <<doneSignals, calibrationDone>>
  /\ lastCalibPoint' = calibPts[calibIdx + 1]
  /\ calibTotalClicks' = calibTotalClicks + 1
  /\ Flushed
  /\ lastOp' = "onCalibDotClick"
  /\ UNCHANGED <<appVars, propVars>>
  /\ UNCHANGED <<lastCleared, csvRows, csvOut>>
  /\ UNCHANGED <<ready, recording>>
  /\ UNCHANGED <<refVars, hookVars, envVars>>
  /\ UNCHANGED <<ticksWithGaze, sampleCtx, startedIds, hadError>>

\* ---- the sampler

\* faulty variant: the operands of the subtraction swapped
TsMs_swapped(t, start) == Round(OrElse(start, 0) - t)

\* ts_ms: Math.round(performance.now() - (recordingStartTsRef.current ?? 0))
TsMs(t, start) == Round(t - OrElse(start, 0))

\* audio_recording, audio_segment_id and audio_ts_ms of a row
AudioFields(recRef, segRef, lastTs, start) ==
  [audio_recording |-> IF recRef THEN 1 ELSE 0,
   audio_segment_id |-> IF recRef THEN segRef ELSE NoId,
   audio_ts_ms |-> IF recRef /\ lastTs # NullTs THEN Some(TsMs(lastTs, start)) ELSE None]

\* the row pushed for the gaze point g = <<x, y>>
SampleRow(g) ==
  LET x == clamp(g[1], 0, 2 * viewport[1])
      y == clamp(g[2], 0, 2 * viewport[2])
      a == AudioFields(audioRecordingRef, audioSegmentIdRef, lastAudioTs, recordingStartTs)
  IN [session_id |-> sessionId,
      ts_ms |-> TsMs(now, recordingStartTs),
      gaze_x_px |-> Round(x),
      gaze_y_px |-> Round(y),
      audio_recording |-> a.audio_recording,
      audio_segment_id |-> a.audio_segment_id,
      audio_ts_ms |-> a.audio_ts_ms]

\* faulty variant: a tick without a gaze point pushes a zero-filled row
TickRows_zeroRow(rows, g) ==
  IF g = <<>> THEN Append(rows, SampleRow(<<0, 0>>)) ELSE Append(rows, SampleRow(g))

\* the rows a tick leaves in the buffer: if (!g) return; else push
TickRows(rows, g) == IF g = <<>> THEN rows ELSE Append(rows, SampleRow(g))

\* The setInterval callback, while the interval is armed.
SamplerTick ==
  /\ intervalRef
  /\ lastGaze # <<>> => Len(samples) < MaxSamples
  /\ samples' = TickRows(samples, lastGaze)
  /\ ticksWithGaze' = IF lastGaze = <<>> THEN ticksWithGaze ELSE ticksWithGaze + 1
  /\ sampleCtx' = IF lastGaze = <<>> THEN sampleCtx
                  ELSE Append(sampleCtx, [active |-> isRecording, segment |-> pendingId,
                                          lastTs |-> lastAudioTs])
  /\ lastOp' = "SamplerTick"
  /\ UNCHANGED <<appVars, propVars>>
  /\ UNCHANGED <<lastCleared, csvRows, csvOut>>
  /\ UNCHANGED <<compVars, effVars, hookVars, envVars>>
  /\ UNCHANGED <<lastGaze, sessionId, recordingStartTs, audioSegmentIdRef, calibPts>>
  /\ UNCHANGED <<calibTotalClicks, doneSignals, calibrationDone, lastCalibPoint, startedIds, hadError>>

\* The 50 ms liveness tick of the audio effect.
AudioLivenessTick ==
  /\ audioTickRef
  /\ lastAudioTs' = now
  /\ lastOp' = "AudioLivenessTick"
  /\ UNCHANGED <<appVars, propVars>>
  /\ UNCHANGED <<lastCleared, csvRows, csvOut>>
  /\ UNCHANGED <<intervalRef, intervalPeriod, audioRecordingRef, audioTickRef, samplerDep, audioDep>>
  /\ UNCHANGED <<compVars, refVars, hookVars, envVars>>
  /\ UNCHANGED <<ticksWithGaze, sampleCtx, calibTotalClicks, doneSignals, calibrationDone, lastCalibPoint, startedIds, hadError>>

\* ---- recording

\* faulty variant: clearRecordings revokes the URLs and keeps the segments
ClearedRecordings_kept(recs) == recs

\* clearRecordings: every segment's object URL is revoked, the list emptied
ClearedRecordings(recs) == <<>>
RevokedUrls(recs) == {recs[i].url : i \in 1..Len(recs)}

\* the recorders after the hook's stopRecording(): recorder.stop() on the
\* current recorder if it is recording (its dataavailable and stop events
\* follow), nothing otherwise
StopAudioRecorders ==
  IF mediaRecorderRef # 0 /\ recorders[mediaRecorderRef].state = "recording"
  THEN [recorders EXCEPT ![mediaRecorderRef].state = "flushing"]
  ELSE recorders

\* faulty variant: the Start button stays enabled while recording
StartDisabled_whileRecording == ~ready \/ calibrating

\* faulty variant: the Start button stays enabled during a calibration
StartDisabled_whileCalibrating == ~ready \/ recording

\* faulty variant: the Start button does not wait for the gaze engine
StartDisabled_noReady == calibrating \/ recording

\* Start button: disabled={!ready || calibrating || recording}
StartDisabled == ~ready \/ calibrating \/ recording

\* A press on the Start button while it is disabled: the browser dispatches
\* no click, no handler runs.
pressStartDisabled ==
  /\ Mounted
  /\ StartDisabled
  /\ lastOp' = "pressStartDisabled"
  /\ UNCHANGED <<appVars, propVars>>
  /\ UNCHANGED <<lastCleared, csvRows, csvOut>>
  /\ UNCHANGED <<compVars, refVars, effVars, hookVars, envVars>>
  /\ UNCHANGED <<ticksWithGaze, sampleCtx, calibTotalClicks, doneSignals, calibrationDone, lastCalibPoint, startedIds, hadError>>

\* faulty variant: the buffer is not emptied at a session start
ClearedSamples_kept(rows) == rows

\* samplesRef.current = []
ClearedSamples(rows) == <<>>

\* onClick={startRecording} of the Start button
startRecording ==
  /\ ~StartDisabled
  /\ sessionId <= MaxSessions
  /\ samples' = ClearedSamples(samples)
  /\ sessionId' = sessionId + 1
  /\ recordingStartTs' = now
  /\ recordings' = ClearedRecordings(recordings)
  /\ liveUrls' = liveUrls \ RevokedUrls(recordings)
  /\ audioSegmentIdRef' = NoId
  /\ recording' = TRUE
  /\ status' = "recording"
  /\ Flushed
  /\ lastOp' = "startRecording"
  /\ UNCHANGED <<appVars, propVars>>
  /\ lastCleared' = <<Len(samples) > 0, Len(recordings) > 0, calibIdx > 0 \/ calibClicks > 0>>
  /\ UNCHANGED <<csvRows, csvOut>>
  /\ ticksWithGaze' = 0 /\ sampleCtx' = <<>>
  /\ UNCHANGED <<ready, calibrating, calibIdx, calibClicks, lastGaze, calibPts>>
  /\ UNCHANGED <<isRecording, error, mediaRecorderRef, streamRef, chunks,
                 pendingMeta, pendingId, startTsRef>>
  /\ UNCHANGED <<now, viewport, wgPhase, isSupported, recorders, pendingStarts,
                 nextStream, liveTracks, nextSegment>>
  /\ UNCHANGED <<calibTotalClicks, doneSignals, calibrationDone, lastCalibPoint, startedIds, hadError>>

\* Stop button: disabled={!recording}
stopRecording ==
  /\ recording
  /\ recording' = FALSE
  /\ status' = "stopped"
  /\ recorders' = IF audioRecordingRef THEN StopAudioRecorders ELSE recorders
  /\ startedIds' = IF audioRecordingRef THEN {} ELSE startedIds
  /\ audioSegmentIdRef' = NoId
  /\ Flushed
  /\ lastOp' = "stopRecording"
  /\ UNCHANGED <<appVars, propVars>>
  /\ UNCHANGED <<lastCleared, csvRows, csvOut>>
  /\ UNCHANGED <<ready, calibrating, calibIdx, calibClicks>>
  /\ UNCHANGED <<samples, lastGaze, sessionId, recordingStartTs, calibPts>>
  /\ UNCHANGED hookVars
  /\ UNCHANGED <<now, viewport, wgPhase, isSupported, pendingStarts, nextStream, liveTracks,
                 liveUrls, nextSegment>>
  /\ UNCHANGED <<ticksWithGaze, sampleCtx, calibTotalClicks, doneSignals, calibrationDone, lastCalibPoint, hadError>>

\* ---- clock and window

Advance ==
  /\ now < MaxTime
  /\ now' = now + 1
  /\ lastOp' = "Advance"
  /\ UNCHANGED <<appVars, propVars>>
  /\ UNCHANGED <<lastCleared, csvRows, csvOut>>
  /\ UNCHANGED <<compVars, refVars, effVars, hookVars>>
  /\ UNCHANGED <<viewport, wgPhase, isSupported, recorders, pendingStarts, nextStream, liveTracks,
                 liveUrls, nextSegment>>
  /\ UNCHANGED <<ticksWithGaze, sampleCtx, calibTotalClicks, doneSignals, calibrationDone, lastCalibPoint, startedIds, hadError>>

Resize ==
  /\ \E v \in Viewports \ {viewport} : viewport' = v
  /\ lastOp' = "Resize"
  /\ UNCHANGED <<appVars, propVars>>
  /\ UNCHANGED <<lastCleared, csvRows, csvOut>>
  /\ UNCHANGED <<compVars, refVars, effVars, hookVars>>
  /\ UNCHANGED <<now, wgPhase, isSupported, recorders, pendingStarts, nextStream, liveTracks,
                 liveUrls, nextSegment>>
  /\ UNCHANGED <<ticksWithGaze, sampleCtx, calibTotalClicks, doneSignals, calibrationDone, lastCalibPoint, startedIds, hadError>>

\* ---- the audio recorder hook


\* What startRecording of the hook does once it holds the stream: a new
\* MediaRecorder on it, the pending refs set, recorder.start(),
\* setIsRecording(true), and the id returned to startAudioRecording, which
\* stores it in audioSegmentIdRef.
BeginCapture(id, meta, stream) ==
  /\ pendingId' = id
  /\ pendingMeta' = Some(meta)
  /\ startTsRef' = now
  /\ chunks' = <<>>
  /\ recorders' = [recorders EXCEPT ![id] = [state |-> "recording", startTs |-> now,
                                             stream |-> stream, data |-> 0]]
  /\ mediaRecorderRef' = id
  /\ isRecording' = IF Mounted THEN TRUE ELSE isRecording
  /\ audioSegmentIdRef' = id
  /\ startedIds' = startedIds \cup {id}

\* Audio Start button: disabled={!recording || calibrating || audioRecording ||
\* !audioSupported}.  The hook's start clears the error and either finds the
\* stream in streamRef or calls getUserMedia and waits for it.
startAudioRecording ==
  /\ recording /\ ~calibrating /\ ~isRecording /\ isSupported
  /\ nextSegment <= MaxSegments
  /\ nextSegment' = nextSegment + 1
  /\ error' = ""
  /\ LET id == nextSegment
         meta == [session_id |-> sessionId]
     IN IF streamRef # 0
        THEN /\ BeginCapture(id, meta, streamRef)
             /\ UNCHANGED pendingStarts
        ELSE /\ pendingStarts' = pendingStarts \cup {[id |-> id, meta |-> meta]}
             /\ UNCHANGED <<pendingId, pendingMeta, startTsRef, chunks, recorders,
                            mediaRecorderRef, isRecording, audioSegmentIdRef, startedIds>>
  /\ IF error # "" \/ streamRef # 0 THEN Flushed ELSE UNCHANGED effVars
  /\ lastOp' = "startAudioRecording"
  /\ UNCHANGED <<appVars, propVars>>
  /\ UNCHANGED <<lastCleared, csvRows, csvOut>>
  /\ UNCHANGED <<compVars, recordings, streamRef, nextStream, liveTracks>>
  /\ UNCHANGED <<samples, lastGaze, sessionId, recordingStartTs, calibPts>>
  /\ UNCHANGED <<now, viewport, wgPhase, isSupported, liveUrls>>
  /\ UNCHANGED <<ticksWithGaze, sampleCtx, calibTotalClicks, doneSignals, calibrationDone, lastCalibPoint, hadError>>

\* getUserMedia of a waiting start resolves with a new stream.
GetUserMediaResolve ==
  /\ \E c \in pendingStarts :
       /\ pendingStarts' = pendingStarts \ {c}
       /\ streamRef' = nextStream
       /\ BeginCapture(c.id, c.meta, nextStream)
  /\ nextStream' = nextStream + 1
  /\ liveTracks' = liveTracks \cup {nextStream}
  /\ IF ~isRecording THEN Flushed ELSE UNCHANGED effVars
  /\ lastOp' = "GetUserMediaResolve"
  /\ UNCHANGED <<appVars, propVars>>
  /\ UNCHANGED <<lastCleared, csvRows, csvOut>>
  /\ UNCHANGED <<compVars, recordings, error>>
  /\ UNCHANGED <<samples, lastGaze, sessionId, recordingStartTs, calibPts>>
  /\ UNCHANGED <<now, viewport, wgPhase, isSupported, liveUrls, nextSegment>>
  /\ UNCHANGED <<ticksWithGaze, sampleCtx, calibTotalClicks, doneSignals, calibrationDone, lastCalibPoint, hadError>>

\* getUserMedia of a waiting start rejects: the catch block.
GetUserMediaReject ==
  /\ \E c \in pendingStarts :
       /\ pendingStarts' = pendingStarts \ {c}
       /\ \E e \in Rejections : error' = IF Mounted THEN CatchMessage(e) ELSE error
  /\ isRecording' = FALSE
  /\ hadError' = TRUE
  /\ Flushed
  /\ lastOp' = "GetUserMediaReject"
  /\ UNCHANGED <<appVars, propVars>>
  /\ UNCHANGED <<lastCleared, csvRows, csvOut>>
  /\ UNCHANGED <<compVars, refVars>>
  /\ UNCHANGED <<recordings, mediaRecorderRef, streamRef, chunks, pendingMeta, pendingId,
                 startTsRef>>
  /\ UNCHANGED <<now, viewport, wgPhase, isSupported, recorders, nextStream, liveTracks, liveUrls,
                 nextSegment>>
  /\ UNCHANGED <<ticksWithGaze, sampleCtx, calibTotalClicks, doneSignals, calibrationDone, lastCalibPoint, startedIds>>

\* Audio Stop button: disabled={!audioRecording}
stopAudioRecording ==
  /\ isRecording
  /\ recorders' = StopAudioRecorders
  /\ audioSegmentIdRef' = NoId
  /\ startedIds' = {}
  /\ lastOp' = "stopAudioRecording"
  /\ UNCHANGED <<appVars, propVars>>
  /\ UNCHANGED <<lastCleared, csvRows, csvOut>>
  /\ UNCHANGED <<compVars, effVars, hookVars>>
  /\ UNCHANGED <<samples, lastGaze, sessionId, recordingStartTs, calibPts>>
  /\ UNCHANGED <<now, viewport, wgPhase, isSupported, pendingStarts, nextStream, liveTracks,
                 liveUrls, nextSegment>>
  /\ UNCHANGED <<ticksWithGaze, sampleCtx, calibTotalClicks, doneSignals, calibrationDone, lastCalibPoint, hadError>>

\* recorder.ondataavailable: the one blob a stopped recorder delivers before
\* its stop event; an empty blob is dropped.
RecorderDataAvailable ==
  /\ \E r \in RecorderIds :
       /\ recorders[r].state = "flushing"
       /\ \E size \in {0, 1} :
            /\ recorders' = [recorders EXCEPT ![r].state = "stopping", ![r].data = size]
            /\ chunks' = IF size > 0 THEN Append(chunks, r) ELSE chunks
  /\ lastOp' = "RecorderDataAvailable"
  /\ UNCHANGED <<appVars, propVars>>
  /\ UNCHANGED <<lastCleared, csvRows, csvOut>>
  /\ UNCHANGED <<compVars, refVars, effVars>>
  /\ UNCHANGED <<isRecording, recordings, error, mediaRecorderRef, streamRef,
                 pendingMeta, pendingId, startTsRef>>
  /\ UNCHANGED <<now, viewport, wgPhase, isSupported, pendingStarts, nextStream, liveTracks,
                 liveUrls, nextSegment>>
  /\ UNCHANGED <<ticksWithGaze, sampleCtx, calibTotalClicks, doneSignals, calibrationDone, lastCalibPoint, startedIds, hadError>>

\* the segment recorder r seals in its onstop
SealedSegment(r) ==
  [id |-> IF pendingId # NoId THEN pendingId ELSE r,
   startTs |-> OrElse(startTsRef, recorders[r].startTs),
   stopTs |-> now,
   durationMs |-> now - OrElse(startTsRef, now),
   blob |-> chunks,
   url |-> r,
   meta |-> pendingMeta]

\* recorder.onstop
RecorderStop ==
  /\ \E r \in RecorderIds :
       /\ recorders[r].state = "stopping"
       /\ recorders' = [recorders EXCEPT ![r].state = "inactive"]
       /\ recordings' = IF Mounted THEN Append(recordings, SealedSegment(r)) ELSE recordings
       /\ liveUrls' = liveUrls \cup {r}
  /\ pendingId' = NoId
  /\ pendingMeta' = None
  /\ startTsRef' = NullTs
  /\ chunks' = <<>>
  /\ isRecording' = FALSE
  /\ startedIds' = {}
  /\ Flushed
  /\ lastOp' = "RecorderStop"
  /\ UNCHANGED <<appVars, propVars>>
  /\ UNCHANGED <<lastCleared, csvRows, csvOut>>
  /\ UNCHANGED <<compVars, refVars>>
  /\ UNCHANGED <<error, mediaRecorderRef, streamRef>>
  /\ UNCHANGED <<now, viewport, wgPhase, isSupported, pendingStarts, nextStream, liveTracks,
                 nextSegment>>
  /\ UNCHANGED <<ticksWithGaze, sampleCtx, calibTotalClicks, doneSignals, calibrationDone, lastCalibPoint, hadError>>

\* recorder.onerror; the device then ends the recorder (its dataavailable
\* and stop events follow).
RecorderError ==
  /\ \E r \in RecorderIds :
       /\ recorders[r].state = "recording"
       /\ recorders' = [recorders EXCEPT ![r].state = "flushing"]
  /\ \E m \in ErrorEvents : error' = IF Mounted THEN OnErrorMessage(m) ELSE error
  /\ isRecording' = FALSE
  /\ hadError' = TRUE
  /\ startedIds' = {}
  /\ Flushed
  /\ lastOp' = "RecorderError"
  /\ UNCHANGED <<appVars, propVars>>
  /\ UNCHANGED <<lastCleared, csvRows, csvOut>>
  /\ UNCHANGED <<compVars, refVars>>
  /\ UNCHANGED <<recordings, mediaRecorderRef, streamRef, chunks, pendingMeta, pendingId,
                 startTsRef>>
  /\ UNCHANGED <<now, viewport, wgPhase, isSupported, pendingStarts, nextStream, liveTracks,
                 liveUrls, nextSegment>>
  /\ UNCHANGED <<ticksWithGaze, sampleCtx, calibTotalClicks, doneSignals, calibrationDone, lastCalibPoint>>

\* The component is removed.  Cleanups of GazeRecorder: the gaze engine is
\* ended, both intervals cleared.  Cleanup of the hook: the recorder in
\* mediaRecorderRef is stopped if it records, clearRecordings revokes the
\* URLs of the segments in the list, the tracks of the stream in streamRef
\* are stopped and the ref nulled.  The React state is gone with the
\* component: no handler or effect of it runs again.
Unmount ==
  /\ Mounted
  /\ wgPhase' = "unmounted"
  /\ ready' = FALSE /\ recording' = FALSE /\ calibrating' = FALSE
  /\ intervalRef' = FALSE /\ intervalPeriod' = 0 /\ audioTickRef' = FALSE
  /\ samplerDep' = FALSE /\ audioDep' = FALSE
  /\ isRecording' = FALSE
  /\ recorders' = StopAudioRecorders
  /\ recordings' = ClearedRecordings(recordings)
  /\ liveUrls' = liveUrls \ RevokedUrls(recordings)
  /\ liveTracks' = liveTracks \ {streamRef}
  /\ streamRef' = 0
  /\ lastOp' = "Unmount"
  /\ UNCHANGED <<appVars, propVars>>
  /\ UNCHANGED <<lastCleared, csvRows, csvOut>>
  /\ UNCHANGED <<status, calibIdx, calibClicks, refVars, audioRecordingRef, lastAudioTs>>
  /\ UNCHANGED <<error, mediaRecorderRef, chunks, pendingMeta, pendingId, startTsRef>>
  /\ UNCHANGED <<now, viewport, isSupported, pendingStarts, nextStream, nextSegment>>
  /\ UNCHANGED <<ticksWithGaze, sampleCtx, calibTotalClicks, doneSignals, calibrationDone, lastCalibPoint, startedIds, hadError>>

\* ---- exporters

\* GazeRecorder: download / downloadAudioLog hand their rows to downloadCsv
GazeRecorder_export ==
  /\ csvOut' = downloadCsv(csvRows)
  /\ lastOp' = "GazeRecorder_export"
  /\ UNCHANGED <<appVars, propVars>>
  /\ UNCHANGED <<csvRows, lastCleared>>
  /\ UNCHANGED <<compVars, refVars, effVars, hookVars, envVars>>
  /\ UNCHANGED <<ticksWithGaze, sampleCtx, calibTotalClicks, doneSignals, calibrationDone,
                 lastCalibPoint, startedIds, hadError>>

\* App: downloadPsychometricCsv / downloadDemographicsCsv hand their rows to
\* downloadCsv
App_export ==
  /\ csvOut' = App_downloadCsv(csvRows)
  /\ lastOp' = "App_export"
  /\ UNCHANGED <<appVars, propVars>>
  /\ UNCHANGED <<csvRows, lastCleared>>
  /\ UNCHANGED <<compVars, refVars, effVars, hookVars, envVars>>
  /\ UNCHANGED <<ticksWithGaze, sampleCtx, calibTotalClicks, doneSignals, calibrationDone,
                 lastCalibPoint, startedIds, hadError>>

\* the exporters applied to every row sequence of CsvInputs
InitCsv == InitComponent /\ csvRows \in CsvInputs /\ csvOut = NoCsv /\ sampleHz = AppSampleHz
NextCsv == GazeRecorder_export \/ App_export
SpecCsv == InitCsv /\ [][NextCsv]_vars

\* ---- App: the psychometric test.  An object is the sequence of its
\* <<key, value>> pairs in insertion order; the question ids are strings.
\* startPsychometric and stopPsychometric are handed to the recorder as the
\* props onPsychometricStart and onPsychometricStop; the recorder at hand
\* takes neither, they are steps that can be taken at any time.

QuestionIds == {"q1", "q2"}
\* q.options of a question: the option indexes and their texts
OptionTexts == <<(<<"n", "o">>), (<<"y", "e", "s">>)>>
OptionIndexes == 0..(Len(OptionTexts) - 1)
\* a null option index (the answer to a free-text question)
NullIndex == -1

\* faulty variant: the answer is added as one more entry
SpreadSet_append(prev, k, v) == Append(prev, <<k, v>>)

\* { ...prev, [k]: v }: the key keeps its place if prev has it, else it is
\* added last
SpreadSet(prev, k, v) ==
  IF \E i \in 1..Len(prev) : prev[i][1] = k
  THEN [i \in 1..Len(prev) |-> IF prev[i][1] = k THEN <<k, v>> ELSE prev[i]]
  ELSE Append(prev, <<k, v>>)

\* Object.values(obj)
Values(obj) == [i \in 1..Len(obj) |-> obj[i][2]]

\* the entry onPsychometricAnswer stores for (questionId, optionIndex,
\* optionText)
ResponseEntry(q, o, text) ==
  [question_id |-> q, answer_option_index |-> o, answer_option_text |-> text, ts |-> now]

\* the row downloadPsychometricCsv makes of an entry.  session_id is the
\* App's sessionId state, "" until a recorder reports one through
\* onSessionIdChange; the recorder at hand does not.
PsychometricRow(r, base) ==
  <<(<<"session_id", StrV(<<>>)>>),
    (<<"ts_ms", IF base # NullTs THEN NumV(Round(r.ts - base)) ELSE StrV(<<>>)>>),
    (<<"question_id", StrV(<<r.question_id>>)>>),
    (<<"answer_option_index",
       IF r.answer_option_index # NullIndex THEN NumV(r.answer_option_index) ELSE StrV(<<>>)>>),
    (<<"answer_option_text", StrV(r.answer_option_text)>>)>>

PsychometricRows ==
  LET vs == Values(psychometricResponses)
  IN [i \in 1..Len(vs) |-> PsychometricRow(vs[i], psychometricStartTsRef)]

startPsychometric ==
  /\ psychometricResponses' = <<>>
  /\ psychometricStartTsRef' = now
  /\ psychometricActive' = TRUE
  /\ lastOp' = "startPsychometric"
  /\ UNCHANGED <<lastCleared, csvRows, csvOut, propVars>>
  /\ UNCHANGED <<compVars, refVars, effVars, hookVars, envVars>>
  /\ UNCHANGED <<ticksWithGaze, sampleCtx, calibTotalClicks, doneSignals, calibrationDone,
                 lastCalibPoint, startedIds, hadError>>

\* downloadPsychometricCsv(); setPsychometricActive(false)
stopPsychometric ==
  /\ csvRows' = PsychometricRows
  /\ csvOut' = App_downloadCsv(PsychometricRows)
  /\ psychometricActive' = FALSE
  /\ lastOp' = "stopPsychometric"
  /\ UNCHANGED <<lastCleared, psychometricResponses, psychometricStartTsRef, propVars>>
  /\ UNCHANGED <<compVars, refVars, effVars, hookVars, envVars>>
  /\ UNCHANGED <<ticksWithGaze, sampleCtx, calibTotalClicks, doneSignals, calibrationDone,
                 lastCalibPoint, startedIds, hadError>>

\* if (!psychometricActive) return; setPsychometricResponses((prev) => ...)
onPsychometricAnswer(q, o, text) ==
  /\ psychometricResponses' =
       IF ~psychometricActive THEN psychometricResponses
       ELSE SpreadSet(psychometricResponses, q, ResponseEntry(q, o, text))
  /\ lastOp' = "onPsychometricAnswer"
  /\ UNCHANGED <<lastCleared, csvRows, csvOut, psychometricActive, psychometricStartTsRef,
                 propVars>>
  /\ UNCHANGED <<compVars, refVars, effVars, hookVars, envVars>>
  /\ UNCHANGED <<ticksWithGaze, sampleCtx, calibTotalClicks, doneSignals, calibrationDone,
                 lastCalibPoint, startedIds, hadError>>

\* QuestionScreen.onSelect: an option of a question is chosen,
\* onAnswer(q.id, optionIndex, q.options[optionIndex])
QuestionScreen_onSelect ==
  \E q \in QuestionIds, o \in OptionIndexes : onPsychometricAnswer(q, o, OptionTexts[o + 1])

\* QuestionScreen.handleNext on a free-text question with text typed:
\* onAnswer(q.id, null, "", text); onPsychometricAnswer takes three
\* parameters, the text is not stored
QuestionScreen_handleNext ==
  \E q \in QuestionIds : onPsychometricAnswer(q, NullIndex, <<>>)

\* the psychometric test: its start, its answers, its stop with the export,
\* and the clock
NextPsychometric ==
  \/ startPsychometric
  \/ QuestionScreen_onSelect
  \/ QuestionScreen_handleNext
  \/ stopPsychometric
  \/ Advance

SpecPsychometric == Init /\ [][NextPsychometric]_vars

\* ---- the program

Next ==
  \/ MountWebGazer
  \/ WebGazerBegin
  \/ GazeListener
  \/ startCalibration
  \/ onCalibDotClick
  \/ startRecording
  \/ stopRecording
  \/ startAudioRecording
  \/ GetUserMediaResolve
  \/ GetUserMediaReject
  \/ stopAudioRecording
  \/ RecorderDataAvailable
  \/ RecorderStop
  \/ RecorderError
  \/ FlushEffects
  \/ SamplerTick
  \/ AudioLivenessTick
  \/ Advance
  \/ Resize
  \/ Unmount
  \/ pressStartDisabled
  \/ GazeRecorder_export
  \/ App_export
  \/ startPsychometric
  \/ QuestionScreen_onSelect
  \/ QuestionScreen_handleNext
  \/ stopPsychometric

Spec == Init /\ [][Next]_vars

\* ---- slices of the program.  Each is Init with the steps that can change
\* what its claims read; the steps left out only stutter on those variables
\* or disable a step of the slice for a while.

\* calibration: the gaze engine's start, the calibration handlers, and the
\* recording handlers that the Calibrate and Start guards read
NextCalib ==
  \/ MountWebGazer
  \/ WebGazerBegin
  \/ startCalibration
  \/ onCalibDotClick
  \/ startRecording
  \/ stopRecording
  \/ Resize

SpecCalib == Init /\ [][NextCalib]_vars

\* the sampler: gaze engine and slot, recording handlers, the effects, the
\* sampler's timer, the clock and the window
NextSampler ==
  \/ MountWebGazer
  \/ WebGazerBegin
  \/ GazeListener
  \/ startRecording
  \/ stopRecording
  \/ FlushEffects
  \/ SamplerTick
  \/ Advance
  \/ Resize

SpecSampler == Init /\ [][NextSampler]_vars

\* the audio recorder: the hook, its device, the recording handlers that
\* call it and the effects, at one instant
NextAudio ==
  \/ MountWebGazer
  \/ WebGazerBegin
  \/ startRecording
  \/ stopRecording
  \/ startAudioRecording
  \/ GetUserMediaResolve
  \/ GetUserMediaReject
  \/ stopAudioRecording
  \/ RecorderDataAvailable
  \/ RecorderStop
  \/ RecorderError
  \/ FlushEffects
  \/ AudioLivenessTick

SpecAudio == Init /\ [][NextAudio]_vars

\* the browser delivers the events it has queued for a stopped recorder
SpecAudioFair ==
  SpecAudio /\ WF_vars(RecorderDataAvailable) /\ WF_vars(RecorderStop)

\* every asynchronous callback that is due is delivered: a waiting
\* getUserMedia settles, a stopped recorder's events arrive, pending effects
\* run; the user's presses are under no obligation
SpecAudioLive ==
  /\ SpecAudio
  /\ WF_vars(GetUserMediaResolve \/ GetUserMediaReject)
  /\ WF_vars(RecorderDataAvailable)
  /\ WF_vars(RecorderStop)
  /\ WF_vars(FlushEffects)

\* rows and segments together: the sampler and the audio recorder without
\* device failures, at one instant, in one window and with one gaze point
NextRows ==
  \/ MountWebGazer
  \/ WebGazerBegin
  \/ GazePush(<<Num(7), Num(4)>>)
  \/ startRecording
  \/ stopRecording
  \/ startAudioRecording
  \/ GetUserMediaResolve
  \/ stopAudioRecording
  \/ RecorderDataAvailable
  \/ RecorderStop
  \/ FlushEffects
  \/ SamplerTick
  \/ AudioLivenessTick

SpecRows == Init /\ [][NextRows]_vars

\* the Start button: recordings with their rows, and presses on the button
\* in every state
NextStart ==
  \/ MountWebGazer
  \/ WebGazerBegin
  \/ GazePush(<<Num(7), Num(4)>>)
  \/ startRecording
  \/ pressStartDisabled
  \/ stopRecording
  \/ FlushEffects
  \/ SamplerTick
  \/ Advance

SpecStart == Init /\ [][NextStart]_vars

\* teardown: recordings with audio segments, and the unmount at any point
NextTeardown ==
  \/ MountWebGazer
  \/ WebGazerBegin
  \/ startRecording
  \/ stopRecording
  \/ startAudioRecording
  \/ GetUserMediaResolve
  \/ stopAudioRecording
  \/ RecorderDataAvailable
  \/ RecorderStop
  \/ FlushEffects
  \/ Unmount

SpecTeardown == Init /\ [][NextTeardown]_vars

\* the sampler's timer for every sample rate: the sampleHz prop drawn from
\* SampleRates, recordings started and stopped, the effects and the clock
SampleRates == {<<5, 1>>, <<1000, 1>>, <<2000, 1>>, <<101, 1>>, <<100, 1>>, <<95, 1>>,
                <<60, 1>>, <<16, 1>>, <<7, 1>>, <<3, 1>>, <<1, 1>>, <<1, 2>>, <<5, 2>>}

InitPeriod == InitComponent /\ csvRows = <<>> /\ csvOut = NoCsv /\ sampleHz \in SampleRates

NextPeriod ==
  \/ MountWebGazer
  \/ WebGazerBegin
  \/ startRecording
  \/ stopRecording
  \/ FlushEffects
  \/ Advance

SpecPeriod == InitPeriod /\ [][NextPeriod]_vars

\* the gaze slot: the engine's pushes, the sampler that reads the slot, the
\* window, and the unmount at any point
NextGaze ==
  \/ MountWebGazer
  \/ WebGazerBegin
  \/ GazeListener
  \/ startRecording
  \/ stopRecording
  \/ FlushEffects
  \/ SamplerTick
  \/ Resize
  \/ Unmount

SpecGaze == Init /\ [][NextGaze]_vars

\* rows and audio activity over time: recordings with their rows, one audio
\* segment, the two timers, the effects and the clock, with one gaze point
NextAudioTs ==
  \/ MountWebGazer
  \/ WebGazerBegin
  \/ GazePush(<<Num(7), Num(4)>>)
  \/ startRecording
  \/ stopRecording
  \/ (nextSegment = 1 /\ startAudioRecording)
  \/ GetUserMediaResolve
  \/ RecorderDataAvailable
  \/ RecorderStop
  \/ FlushEffects
  \/ SamplerTick
  \/ AudioLivenessTick
  \/ Advance

SpecAudioTs == Init /\ [][NextAudioTs]_vars

\* ---- session reset

\* The calibration state a session reset leaves: Idle.
ResetCalibration == [calibrating |-> FALSE, calibIdx |-> 0, calibClicks |-> 0]

\* The handler the recorder registers with the application for a session
\* reset.  It is not part of the sources at hand; this is the reset the
\* specification describes: the sampler's timer and the audio liveness timer
\* cancelled, the sample buffer and the audio segment list emptied (each
\* segment's object URL revoked), the calibration state Idle, in one step.
ResetSession ==
  /\ recording' = FALSE
  /\ intervalRef' = FALSE /\ intervalPeriod' = 0 /\ samplerDep' = FALSE
  /\ audioTickRef' = FALSE
  /\ samples' = <<>>
  /\ recordings' = ClearedRecordings(recordings)
  /\ liveUrls' = liveUrls \ RevokedUrls(recordings)
  /\ calibrating' = ResetCalibration.calibrating
  /\ calibIdx' = ResetCalibration.calibIdx
  /\ calibClicks' = ResetCalibration.calibClicks

\* faulty variant: the registered handler is not called
handleQuestionRestart_noReset ==
  /\ lastOp' = "handleQuestionRestart"
  /\ UNCHANGED <<appVars, propVars>>
  /\ lastCleared' = <<Len(samples) > 0, Len(recordings) > 0, calibIdx > 0 \/ calibClicks > 0>>
  /\ UNCHANGED <<csvRows, csvOut>>
  /\ UNCHANGED <<compVars, refVars, effVars, hookVars, envVars>>
  /\ UNCHANGED <<ticksWithGaze, sampleCtx, calibTotalClicks, doneSignals, calibrationDone, lastCalibPoint, startedIds, hadError>>

\* App.handleQuestionRestart: if (typeof resetSession === "function")
\* resetSession(); the rest of it resets the demographics form.
handleQuestionRestart ==
  /\ ResetSession
  /\ lastOp' = "handleQuestionRestart"
  /\ UNCHANGED <<appVars, propVars>>
  /\ lastCleared' = <<Len(samples) > 0, Len(recordings) > 0, calibIdx > 0 \/ calibClicks > 0>>
  /\ UNCHANGED <<csvRows, csvOut>>
  /\ ticksWithGaze' = 0 /\ sampleCtx' = <<>>
  /\ UNCHANGED <<ready, status>>
  /\ UNCHANGED <<lastGaze, sessionId, recordingStartTs, audioSegmentIdRef, calibPts>>
  /\ UNCHANGED <<audioRecordingRef, lastAudioTs, audioDep>>
  /\ UNCHANGED <<isRecording, error, mediaRecorderRef, streamRef, chunks, pendingMeta,
                 pendingId, startTsRef>>
  /\ UNCHANGED <<now, viewport, wgPhase, isSupported, recorders, pendingStarts, nextStream, liveTracks,
                 nextSegment>>
  /\ UNCHANGED <<calibTotalClicks, doneSignals, calibrationDone, lastCalibPoint, startedIds, hadError>>

\* the session reset: calibration before the first recording, recordings
\* with their rows and one audio segment, and the reset at any point
NextReset ==
  \/ MountWebGazer
  \/ WebGazerBegin
  \/ GazePush(<<Num(7), Num(4)>>)
  \/ (sessionId = 1 /\ startCalibration)
  \/ onCalibDotClick
  \/ startRecording
  \/ (nextSegment = 1 /\ startAudioRecording)
  \/ GetUserMediaResolve
  \/ stopAudioRecording
  \/ RecorderDataAvailable
  \/ RecorderStop
  \/ FlushEffects
  \/ SamplerTick
  \/ handleQuestionRestart

SpecReset == Init /\ [][NextReset]_vars

\* ---- claims

\* C1: a sampler tick at which the gaze slot is empty appends no row, a tick
\* at which it holds a point appends exactly one row at the end of the
\* buffer, and the buffer of a recording holds as many rows as ticks of it
\* found a gaze point.
C1_OneRowPerTickWithGaze ==
  /\ [](Len(samples) = ticksWithGaze)
  /\ [][SamplerTick =>
          IF lastGaze = <<>>
          THEN samples' = samples
          ELSE /\ Len(samples') = Len(samples) + 1
               /\ SubSeq(samples', 1, Len(samples)) = samples]_vars

\* C1 witness: two ticks of the second recording each found a gaze point.
C1_Witness ==
  /\ lastOp = "SamplerTick" /\ recording /\ sessionId > 2
  /\ ticksWithGaze = 2 /\ Len(samples) = 2

\* C2: stopRecording cancels the sampler's timer before it returns, so that
\* from its return until the next startRecording no sampler tick fires and
\* no row is appended to the buffer.
C2_NoRowAfterStop ==
  [][~recording /\ ~recording' => ~(SamplerTick /\ samples' # samples)]_vars

\* the recorders that are capturing
ActiveRecorders == {r \in RecorderIds : recorders[r].state = "recording"}

\* C3: audio starts issued without a stop between them all return the id of
\* the one segment in progress, and at most one recorder is capturing.
C3_IdempotentAudioStart ==
  /\ Cardinality(startedIds) <= 1
  /\ Cardinality(ActiveRecorders) <= 1

\* C4: the recorder's isRecording never becomes true in a state where the
\* sampler's recording flag is false.
C4_AudioOnlyWhileSampling ==
  [][~isRecording /\ isRecording' => recording']_vars

C6_CalibrationProgress ==
  LET N == ClicksPerCalibrationPoint
      i == (calibTotalClicks - 1) \div N
  IN /\ calibrating =>
          /\ calibTotalClicks = calibIdx * N + calibClicks
          /\ calibIdx < GridSize /\ calibClicks < N
          /\ calibTotalClicks < GridSize * N
     /\ (~calibrating /\ calibTotalClicks > 0) =>
          /\ calibTotalClicks = GridSize * N
          /\ calibIdx = GridSize /\ calibClicks = 0
     /\ calibTotalClicks > 0 =>
          /\ lastCalibPoint[1] = calibPts[(i % 3) + 1][1]
          /\ lastCalibPoint[2] = calibPts[3 * (i \div 3) + 1][2]
     /\ calibPts[1][1] < calibPts[2][1] /\ calibPts[2][1] < calibPts[3][1]
     /\ calibPts[1][2] < calibPts[4][2] /\ calibPts[4][2] < calibPts[7][2]
     /\ calibPts[1][2] = calibPts[2][2] /\ calibPts[2][2] = calibPts[3][2]

\* C6 witness: the click that completes the calibration.
C6_Witness ==
  /\ lastOp = "onCalibDotClick" /\ ~calibrating
  /\ calibIdx = GridSize /\ calibTotalClicks = GridSize * ClicksPerCalibrationPoint

\* C7: a row appended while audio recording is active has the flag set, the
\* non-blank id of the segment in progress and the latest audio-activity time
\* relative to the session start; a row appended while it is not active has
\* flag 0 and both fields blank.
C7_AudioFieldsOfRows ==
  \A i \in 1..Len(samples) :
    LET r == samples[i]
        c == sampleCtx[i]
    IN IF c.active
       THEN /\ r.audio_recording = 1
            /\ r.audio_segment_id # NoId /\ r.audio_segment_id = c.segment
            /\ r.audio_ts_ms = Some(TsMs(c.lastTs, recordingStartTs))
       ELSE /\ r.audio_recording = 0
            /\ r.audio_segment_id = NoId
            /\ r.audio_ts_ms = None

\* C8: once a failed acquisition or a device error has been handled the
\* error message is non-empty and isRecording is false, and isRecording does
\* not stay true for ever without a capturing recorder.
C8_ErrorsStopRecording ==
  /\ [][(RecorderError \/ GetUserMediaReject) => (error' # "" /\ ~isRecording')]_vars
  /\ (isRecording /\ ActiveRecorders = {}) ~> ~isRecording

\* C8 witness: after an error, a later start has succeeded and is capturing.
C8_Witness ==
  /\ hadError /\ isRecording /\ error = ""
  /\ mediaRecorderRef # 0 /\ recorders[mediaRecorderRef].state = "recording"
  /\ Cardinality(ActiveRecorders) = 1 /\ pendingStarts = {}

\* C9: startRecording makes a new session id and start timestamp and leaves
\* the sample buffer and the audio segment list empty.
C9_StartResetsSession ==
  [][startRecording =>
       /\ sessionId' > sessionId
       /\ recordingStartTs' = now'
       /\ Len(samples') = 0
       /\ Len(recordings') = 0]_vars

\* C9 witness: a startRecording has just run that found rows and segments.
C9_Witness ==
  /\ lastOp = "startRecording" /\ lastCleared[1] /\ lastCleared[2]
  /\ samples = <<>> /\ recordings = <<>>

\* C10: the relative timestamps of the rows in the buffer are non-negative
\* and non-decreasing in buffer order.
C10_TimestampsMonotone ==
  \A i \in 1..Len(samples) :
    /\ samples[i].ts_ms >= 0
    /\ i > 1 => samples[i - 1].ts_ms <= samples[i].ts_ms

\* C10 witness: two rows of a second session, the later with the greater
\* timestamp.
C10_Witness ==
  /\ Len(samples) = 2 /\ sessionId > 2 /\ recordingStartTs > 0
  /\ samples[1].ts_ms < samples[2].ts_ms

NoPendingStop == \A r \in RecorderIds : recorders[r].state \notin {"flushing", "stopping"}

\* C11: once clearRecordings has run at a session start, or the teardown has
\* run, and no stop callback is pending, no object URL made for a segment
\* is left un-revoked; right after the teardown no device track is live.
C11_HandlesReleased ==
  /\ (lastOp = "startRecording" /\ NoPendingStop) => liveUrls = {}
  /\ (~Mounted /\ NoPendingStop) => liveUrls = {}
  /\ lastOp = "Unmount" => liveTracks = {}

\* C12: the stop event of a recorder stopped by stopRecording appends
\* exactly one segment, with the id its start returned, a duration of stopTs
\* minus the recorder's start time and the chunks the recorder delivered as
\* payload; it clears the pending id, metadata, start time and chunk buffer
\* and leaves the stream in place.
C12_StopSealsSegment ==
  [][(RecorderStop /\ ~hadError /\ Mounted) =>
       \E r \in RecorderIds :
         /\ recorders[r].state = "stopping" /\ recorders'[r].state = "inactive"
         /\ Len(recordings') = Len(recordings) + 1
         /\ SubSeq(recordings', 1, Len(recordings)) = recordings
         /\ LET seg == recordings'[Len(recordings')]
            IN /\ seg.id = r
               /\ seg.durationMs = seg.stopTs - recorders[r].startTs
               /\ seg.blob = IF recorders[r].data = 1 THEN <<r>> ELSE <<>>
         /\ pendingId' = NoId /\ pendingMeta' = None
         /\ startTsRef' = NullTs /\ chunks' = <<>>
         /\ streamRef' = streamRef /\ streamRef \in liveTracks']_vars

\* C13: getUserMedia succeeds at most once, and every recorder is made on
\* that one stream.
C13_StreamAcquiredOnce ==
  /\ nextStream <= 2
  /\ \A r \in RecorderIds : recorders[r].state # "none" => recorders[r].stream = 1

\* C14: a press on Start while recording is true leaves the session id, the
\* session start timestamp, the sample buffer, the audio segment list and
\* the running timer as they are.
C14_StartWhileRecordingNoOp ==
  [][(recording /\ (startRecording \/ pressStartDisabled)) =>
       /\ sessionId' = sessionId
       /\ recordingStartTs' = recordingStartTs
       /\ samples' = samples
       /\ recordings' = recordings
       /\ intervalRef' = intervalRef
       /\ recording']_vars

\* C14 witness: Start has just been pressed during a recording whose timer
\* runs and whose buffer holds rows.
C14_Witness ==
  /\ lastOp = "pressStartDisabled" /\ recording /\ intervalRef
  /\ Len(samples) > 0 /\ recordingStartTs > 0

\* C15: recording implies ready and calibrating implies ready; when the gaze
\* engine is missing or fails to start, the status says so and ready,
\* recording and calibrating stay false.
C15_NotReadyDisallows ==
  /\ recording => ready
  /\ calibrating => ready
  /\ wgPhase = "missing" =>
       /\ status = "WebGazer script not found (check index.html)"
       /\ ~ready /\ ~recording /\ ~calibrating
  /\ wgPhase = "failed" =>
       /\ status = "failed to start: no camera"
       /\ ~ready /\ ~recording /\ ~calibrating

\* C15 witness: the engine's start has just failed.
C15_Witness ==
  /\ lastOp = "WebGazerBegin" /\ wgPhase = "failed"
  /\ ~ready /\ status = "failed to start: no camera"

C17_RestartResetsCalibration ==
  [][startCalibration =>
       /\ calibIdx' = 0 /\ calibClicks' = 0 /\ calibrating']_vars

\* C17 witness: startCalibration has just run in the middle of a first run
\* that had progress.
C17_Witness ==
  /\ lastOp = "startCalibration" /\ lastCleared[3] /\ ~calibrationDone
  /\ calibrating /\ calibIdx = 0 /\ calibClicks = 0

\* C18: at every transition into calibrating, the grid of targets is the
\* 3x3 grid of the viewport's width and height at that moment.
C18_GridOfCurrentViewport ==
  lastOp = "startCalibration" => calibPts = make9PointGrid(viewport[1], viewport[2])

\* the encoding of one field as the rule states it
RuleField(v) ==
  IF v.kind \in {"null", "undefined"} THEN <<>>
  ELSE IF \E i \in 1..Len(String(v)) : String(v)[i] \in {",", "\"", "\n"}
       THEN <<"\"">> \o Join([i \in 1..Len(String(v)) |->
                                IF String(v)[i] = "\"" THEN <<"\"", "\"">> ELSE <<String(v)[i]>>],
                             <<>>) \o <<"\"">>
       ELSE String(v)

RuleHeader(rows) ==
  LET all == Join([i \in 1..Len(rows) |-> Keys(rows[i])], <<>>)
      first(p) == \A q \in 1..(p - 1) : all[q] # all[p]
      firsts == {p \in 1..Len(all) : first(p)}
      nth[n \in 1..Cardinality(firsts)] ==
        CHOOSE p \in firsts : Cardinality({q \in firsts : q < p}) = n - 1
  IN [n \in 1..Cardinality(firsts) |-> all[nth[n]]]

C21_NoFileForZeroRows ==
  (lastOp \in {"GazeRecorder_export", "App_export"} /\ Len(csvRows) = 0) =>
     /\ csvOut.by = "none"
     /\ csvOut = NoCsv

\* C21 witness: the application's exporter has just been handed zero rows.
C21_Witness ==
  /\ lastOp = "App_export" /\ csvRows = <<>> /\ csvOut = NoCsv

\* C22: the psychometric responses are a map keyed by question id: no two
\* entries have the same key, an answer accepted while the test is active
\* becomes the one entry of its question and leaves the entries of the
\* other questions as they were, an answer while it is not active changes
\* nothing, and the export has one row per entry, in the entries' order.
C22_ResponsesAreAMap ==
  /\ [](\A i, j \in 1..Len(psychometricResponses) :
          /\ psychometricResponses[i][1] \in QuestionIds
          /\ psychometricResponses[i][2].question_id = psychometricResponses[i][1]
          /\ i # j => psychometricResponses[i][1] # psychometricResponses[j][1])
  /\ [][\A q \in QuestionIds, o \in OptionIndexes \cup {NullIndex} :
          \A text \in {OptionTexts[i] : i \in 1..Len(OptionTexts)} \cup {<<>>} :
          onPsychometricAnswer(q, o, text) =>
            IF psychometricActive
            THEN /\ Get(psychometricResponses', q) =
                      [question_id |-> q, answer_option_index |-> o,
                       answer_option_text |-> text, ts |-> now]
                 /\ \A k \in QuestionIds \ {q} :
                      Get(psychometricResponses', k) = Get(psychometricResponses, k)
            ELSE psychometricResponses' = psychometricResponses]_vars
  /\ [][stopPsychometric =>
          /\ Len(csvRows') = Len(psychometricResponses)
          /\ \A i \in 1..Len(psychometricResponses) :
               LET r == psychometricResponses[i][2] IN
               /\ Get(csvRows'[i], "question_id") = StrV(<<psychometricResponses[i][1]>>)
               /\ r.answer_option_index # NullIndex =>
                    Get(csvRows'[i], "answer_option_index") = NumV(r.answer_option_index)
               /\ Get(csvRows'[i], "answer_option_text") = StrV(r.answer_option_text)
          /\ Len(psychometricResponses) > 0 =>
               /\ csvOut'.by = "App"
               /\ Len(csvOut'.fields) = Len(psychometricResponses)]_vars

\* C22 witness: the export of two entries, the first of which was answered
\* again after the second.
C22_Witness ==
  /\ lastOp = "stopPsychometric" /\ Len(psychometricResponses) = 2
  /\ psychometricResponses[1][2].ts > psychometricResponses[2][2].ts
  /\ Len(csvOut.fields) = 2 /\ csvOut.fields[1][3] = <<psychometricResponses[1][1]>>

\* round(1000/f) as the rule states it: the integer within one half of
\* 1000/f, the upper one at a tie
RulePeriod(hz) ==
  LET n == hz[1]
      d == hz[2]
      r == CHOOSE q \in 0..(1000 * d + 1) :
             /\ (2 * q - 1) * n <= 2000 * d
             /\ 2000 * d < (2 * q + 1) * n
  IN IF r >= 10 THEN r ELSE 10

\* C23: the delay the sampler's interval is armed with is
\* max(10, round(1000/f)) ms for the configured frequency f; 200 for f = 5,
\* 10 for f = 1000.
C23_TickPeriod ==
  /\ intervalRef => intervalPeriod = RulePeriod(sampleHz)
  /\ (intervalRef /\ sampleHz = <<5, 1>>) => intervalPeriod = 200
  /\ (intervalRef /\ sampleHz = <<1000, 1>>) => intervalPeriod = 10

\* C23 witness: the interval of a second recording runs at 1000 Hz asked,
\* with the floor of 10 ms.
C23_Witness ==
  /\ intervalRef /\ recording /\ sessionId > 2
  /\ sampleHz = <<1000, 1>> /\ intervalPeriod = 10

\* C24: a push of a point with finite x and y while the component is
\* mounted replaces the slot by that point; a null push, a push with a
\* non-finite coordinate and a push after the teardown leave it; nothing
\* but a push changes the slot, which holds one point at most; a sampler
\* tick leaves the slot and the row it appends is made of the slot's point.
C24_SlotIsMailbox ==
  /\ [][\A data \in GazeData :
          GazePush(data) =>
            lastGaze' = IF /\ Mounted /\ data # <<>>
                           /\ data[1][1] = "num" /\ data[2][1] = "num"
                        THEN <<data[1][2], data[2][2]>>
                        ELSE lastGaze]_vars
  /\ [][lastGaze' # lastGaze => GazeListener]_vars
  /\ [](lastGaze = <<>> \/ Len(lastGaze) = 2)
  /\ [][SamplerTick =>
          /\ lastGaze' = lastGaze
          /\ lastGaze # <<>> =>
               LET row == samples'[Len(samples')] IN
               /\ row.gaze_x_px = Round(Max(0, Min(2 * viewport[1], lastGaze[1])))
               /\ row.gaze_y_px = Round(Max(0, Min(2 * viewport[2], lastGaze[2])))]_vars

\* C24 witness: a push after the teardown has just left the slot, which
\* holds the point that replaced the one a recorded row was made of.
C24_Witness ==
  /\ lastOp = "GazeListener" /\ ~Mounted /\ lastGaze = <<-2, 99>>
  /\ Len(samples) > 0 /\ samples[1].gaze_x_px = 4

\* C25: recording and calibrating are never both true.
C25_RecordingExcludesCalibrating == ~(recording /\ calibrating)

\* C25 witness: a calibration begun after a recording was stopped is under
\* way, and the Start button is disabled for it.
C25_Witness ==
  /\ calibrating /\ ~recording /\ sessionId > 1 /\ calibClicks > 0
  /\ ready /\ StartDisabled

\* C26: every row of the sample buffer carries the current session id.
C26_RowsOfOneSession ==
  \A i \in 1..Len(samples) : samples[i].session_id = sessionId

\* C26 witness: the second recording, started over the rows of the first,
\* has its own two rows.
C26_Witness ==
  /\ sessionId = 3 /\ lastCleared # <<>> /\ lastCleared[1]
  /\ Len(samples) = 2 /\ samples[1].session_id = 3 /\ samples[2].session_id = 3

\* C27: every segment of the audio segment list belongs to the current
\* session: its metadata carry the current session id and it was started
\* at or after the session's start.
C27_SegmentsOfCurrentSession ==
  \A i \in 1..Len(recordings) :
    /\ recordings[i].meta = Some([session_id |-> sessionId])
    /\ recordings[i].startTs >= recordingStartTs

C29_AudioIdleAfterStop == (~recording) ~> (~isRecording)

====
